---- MODULE Spec2Model ----
(***************************************************************************)
(* Model of the duplicate detection command of ImageSorter                 *)
(* (src-tauri/src/commands/folder.rs, find_duplicates) and of the hashing  *)
(* helpers it calls (src-tauri/src/services/hashing.rs).                   *)
(*                                                                         *)
(* Indices of vectors are 1-based here (0-based in the Rust code); group   *)
(* ids keep the code's numbering from 0.  A perceptual hash is a sequence  *)
(* of bits; the 8x8 gradient hash of the code has 64 of them, the model    *)
(* PipeBits, HashBits or MonoBits.  Paths of one call are distinct (ImageRecord.path is the key  *)
(* of a record within a run), so an ImageInfo is identified by its path;   *)
(* filename and size_bytes are functions of the path and take no part in   *)
(* the grouping.                                                           *)
(***************************************************************************)
EXTENDS Integers, Sequences, FiniteSets, TLC

\* ------------------------------------------------------------------ bounds
MaxPaths == 3        \* longest input path list of a call (Spec)
MaxImages == 4       \* longest input path list of a call (SpecGroup)
HashBits == 2        \* width of a perceptual hash (SpecGroup)
MaxThreshold == 1    \* largest threshold a call is given (SpecGroup)
PipeBits == 1        \* width of a perceptual hash (Spec)
PipeMaxThreshold == 1 \* largest threshold a call is given (Spec)
NumWorkers == 2      \* threads of the rayon pool

CachePaths == 2      \* paths the hash cache is asked about (SpecCache)
MaxMtime == 2        \* modification times run over 0..MaxMtime (SpecCache)

MaxOpPaths == 2      \* longest path list of a file operation (SpecOps)

Workers == 1..NumWorkers
NoOwner == 0         \* the mutex is not held

\* What load_image and compute_perceptual_hash make of a file: Err, or the
\* hash bits of its image.
Fail == [ok |-> FALSE, bits |-> <<>>]
Hashes(bits) == [ok |-> TRUE, bits |-> bits]
FileContents(w) == {Hashes(b) : b \in [1..w -> {0, 1}]} \cup {Fail}

VARIABLES
    paths,           \* the call's argument paths: Vec<String>
    files,           \* file system: path -> Fail or the hash bits of the image
    threshold,       \* the call's argument threshold: u32
    phase,           \* "hashing", "grouping" or "done"
    pc,              \* per worker: "idle", "lock", "write"
    item,            \* per worker: index of the path it is working on
    taken,           \* indices of paths handed to a worker
    slot,            \* per index: result of the filter_map closure
    finished,        \* indices in the order their closure completed
    error_count,     \* Mutex<usize>: the protected counter
    mutex,           \* holder of the mutex, or NoOwner
    tmp,             \* per worker: counter value read for the += 1
    hashed_images,   \* Vec<ImageWithHash>
    groups,          \* HashMap<usize, Vec<ImageInfo>>
    image_to_group,  \* HashMap<usize, usize>
    next_group_id,
    i,               \* position of the outer grouping loop
    result           \* the returned DuplicateResult

VARIABLES
    run,             \* number of the call of find_duplicates under way
    previous,        \* the groups the call before returned
    decodes          \* calls of load_image made by the call under way

VARIABLES
    cache,           \* hash cache: path -> entry (modification time, hash)
    mtime            \* file system: path -> modification time of the file

VARIABLES
    op,              \* the file operation called and its method
    target_exists,   \* whether the target directory of the call exists
    fsys,            \* file system: the files, each a directory, name, content
    trash,           \* the files in the trash
    op_paths,        \* the call's argument paths
    todo,            \* the paths the loop has not reached yet
    opres,           \* the OperationResult under construction
    oppc             \* "call", "loop" or "returned"

history == <<run, previous>>
cacheVars == <<cache, mtime>>
opVars == <<op, target_exists, fsys, trash, op_paths, todo, opres, oppc>>
static == <<history, cacheVars, opVars>>

vars == <<paths, files, threshold, phase, pc, item, taken, slot, finished,
          error_count, mutex, tmp, hashed_images, groups, image_to_group,
          next_group_id, i, result, run, previous, decodes, cache, mtime,
          op, target_exists, fsys, trash, op_paths, todo, opres, oppc>>

inputs == <<paths, files, threshold>>
hashState == <<pc, item, taken, slot, finished, error_count, mutex, tmp>>
groupState == <<groups, image_to_group, next_group_id, i>>

\* ------------------------------------------------------------ pure helpers
Pow2(n) == 2 ^ n

RECURSIVE BitsValue(_)
BitsValue(bits) ==
    IF bits = <<>> THEN 0 ELSE Head(bits) + 2 * BitsValue(Tail(bits))

\* ImageHash::to_base64: the hash bytes as text.  The text is modelled by the
\* pair (number of bits, value of the bits read as a binary number).
ToBase64(bits) == <<Len(bits), BitsValue(bits)>>

\* ImageHash::from_base64: Err for a text that is no hash, else the bits.
FromBase64(text) ==
    IF /\ Len(text) = 2
       /\ text[1] \in Nat
       /\ text[2] \in 0..(Pow2(text[1]) - 1)
    THEN [ok |-> TRUE,
          bits |-> [k \in 1..text[1] |-> (text[2] \div Pow2(k - 1)) % 2]]
    ELSE [ok |-> FALSE, bits |-> <<>>]

\* ImageHash::dist: Hamming distance of two hashes of the same length.
Dist(h1, h2) == Cardinality({k \in 1..Len(h1) : h1[k] # h2[k]})

\* hashing::load_image followed by hashing::compute_perceptual_hash with
\* HashType::Difference: Err when the file cannot be opened or decoded.
LoadAndHash(fs, path) == fs[path]

ImageInfo(path) == [path |-> path]

\* The closure of filter_map (folder.rs 105-139): Some(ImageWithHash) or None.
None == [some |-> FALSE]
Some(x) == [some |-> TRUE, val |-> x]
\* mutant of HashOutcome: a failing path stays in the list, with the hash
\* of all zero bits
HashOutcomeKeepFailed(fs, path) ==
    Some([info |-> ImageInfo(path),
          hash |-> ToBase64(IF LoadAndHash(fs, path).ok
                            THEN LoadAndHash(fs, path).bits
                            ELSE [k \in 1..PipeBits |-> 0])])

HashOutcome(fs, path) ==
    IF ~LoadAndHash(fs, path).ok
    THEN None
    ELSE Some([info |-> ImageInfo(path),
               hash |-> ToBase64(LoadAndHash(fs, path).bits)])

RECURSIVE CollectFrom(_, _, _)
CollectFrom(sl, order, k) ==
    IF k > Len(order) THEN <<>>
    ELSE IF ~sl[order[k]].some THEN CollectFrom(sl, order, k + 1)
    ELSE <<sl[order[k]].val>> \o CollectFrom(sl, order, k + 1)

\* A mutant of Collect: the records in the order the workers completed them.
CollectCompletionOrder(sl, done) == CollectFrom(sl, done, 1)

\* rayon's collect of the filter_map: the Some results in input order,
\* whatever the order the workers completed them in.
Collect(sl, done) == CollectFrom(sl, [k \in 1..Len(done) |-> k], 1)

\* ------------------------------------------------------- grouping (pure)
\* mutant of SeedVisited: the outer loop never skips a record
SeedVisitedNever(itg, k) == FALSE

\* folder.rs 150: image_to_group.contains_key(&i)
SeedVisited(itg, k) == k \in DOMAIN itg

\* mutant of CandidateVisited: the inner loop never skips a record
CandidateVisitedNever(itg, k) == FALSE

\* folder.rs 159: image_to_group.contains_key(&j)
CandidateVisited(itg, k) == k \in DOMAIN itg

\* mutant of WithinThreshold: strict comparison
WithinThresholdStrict(h1, h2, t) == Dist(h1, h2) < t

\* folder.rs 167: h1.dist(&h2) <= threshold
WithinThreshold(h1, h2, t) == Dist(h1, h2) <= t

\* mutant of IsDuplicateGroup: a seed alone is emitted
IsDuplicateGroupAny(members) == Len(members) >= 1

\* folder.rs 174: group_members.len() > 1
IsDuplicateGroup(members) == Len(members) > 1

\* mutant of InnerStart: the inner loop skips the record after the seed
InnerStartSkip(k) == k + 2

\* folder.rs 158: .skip(i + 1)
InnerStart(k) == k + 1

\* folder.rs 158-172: the inner loop from position j on, for the seed at k.
RECURSIVE InnerLoop(_, _, _, _, _, _, _)
InnerLoop(imgs, k, j, members, itg, gid, t) ==
    IF j > Len(imgs) THEN [members |-> members, itg |-> itg]
    ELSE IF CandidateVisited(itg, j)
         THEN InnerLoop(imgs, k, j + 1, members, itg, gid, t)
    ELSE LET h1 == FromBase64(imgs[k].hash)
             h2 == FromBase64(imgs[j].hash)
         IN IF h1.ok /\ h2.ok /\ WithinThreshold(h1.bits, h2.bits, t)
            THEN InnerLoop(imgs, k, j + 1, Append(members, imgs[j].info),
                           (j :> gid) @@ itg, gid, t)
            ELSE InnerLoop(imgs, k, j + 1, members, itg, gid, t)

\* folder.rs 149-178: one iteration of the outer loop, at position st.i.
OuterStep(imgs, st, t) ==
    IF SeedVisited(st.itg, st.i)
    THEN [st EXCEPT !.i = st.i + 1]
    ELSE LET gid == st.next
             r == InnerLoop(imgs, st.i, InnerStart(st.i),
                            <<imgs[st.i].info>>,
                            (st.i :> gid) @@ st.itg, gid, t)
         IN [groups |-> IF IsDuplicateGroup(r.members)
                        THEN (gid :> r.members) @@ st.groups
                        ELSE st.groups,
             itg |-> r.itg,
             next |-> st.next + 1,
             i |-> st.i + 1]

\* folder.rs 145-147: the grouping state before the loop
GroupingStart == [groups |-> <<>>, itg |-> <<>>, next |-> 0, i |-> 1]

RECURSIVE RunFrom(_, _, _)
RunFrom(imgs, st, t) ==
    IF st.i > Len(imgs) THEN st ELSE RunFrom(imgs, OuterStep(imgs, st, t), t)

\* folder.rs 145-178: the whole grouping loop
RunGroups(imgs, t) == RunFrom(imgs, GroupingStart, t)

RECURSIVE SumSeq(_)
SumSeq(s) == IF s = <<>> THEN 0 ELSE Head(s) + SumSeq(Tail(s))

\* mutant of TotalDuplicates: counts every member
TotalMembers(gs) == SumSeq([k \in 1..Len(gs) |-> Len(gs[k].images)])

\* folder.rs 185-188: sum of (len - 1) over the groups
TotalDuplicates(gs) == SumSeq([k \in 1..Len(gs) |-> Len(gs[k].images) - 1])

\* The orders HashMap::into_values can yield the groups in (folder.rs 180-183):
\* the iteration order of a HashMap is unspecified.
GroupOrders(g) ==
    LET ids == DOMAIN g
        n == Cardinality(ids)
    IN {o \in [1..n -> ids] : \A a, b \in 1..n : a # b => o[a] # o[b]}

\* mutant of MutexFree: the counter is not protected
MutexAlwaysFree(m) == TRUE

\* folder.rs 129, 135: error_count.lock() succeeds when nobody holds the mutex
MutexFree(m) == m = NoOwner

\* mutant of Lookup: a stale hit, the stored modification time is not compared
LookupIgnoreMtime(c, path, modifiedTime) ==
    IF path \in DOMAIN c THEN Some(c[path].hash) ELSE None

\* Hash Cache, lookup(path, modifiedTime): the cached hash only if the stored
\* modification time matches exactly; any mismatch is a miss.
Lookup(c, path, modifiedTime) ==
    IF path \in DOMAIN c /\ c[path].modifiedTime = modifiedTime
    THEN Some(c[path].hash)
    ELSE None

\* Hash Cache, insert(path, modifiedTime, hash): overwrites any prior entry
\* for path unconditionally.
Insert(c, path, modifiedTime, hash) ==
    (path :> [modifiedTime |-> modifiedTime, hash |-> hash])
        @@ [q \in DOMAIN c \ {path} |-> c[q]]

\* ------------------------------------------------------ sorter.rs, pure
\* sorter.rs 18-25: OperationResult::new
NewResult == [processed |-> 0, success |-> 0, errors |-> 0,
              error_messages |-> <<>>]

\* sorter.rs 27-29: add_success
AddSuccess(r) == [r EXCEPT !.success = @ + 1]

\* mutant of AddError: the message is not recorded
AddErrorNoMessage(r, msg) == [r EXCEPT !.errors = @ + 1]

\* sorter.rs 31-34: add_error
AddError(r, msg) ==
    [r EXCEPT !.errors = @ + 1, !.error_messages = Append(@, msg)]

\* A file of the file system: where it is, and which file it is (named by
\* the place it was at when the operation was called; a copy is the same
\* content).  Path::exists of a place:
Exists(fs, dir, name) == \E f \in fs : f.dir = dir /\ f.name = name

FileAt(fs, dir, name) == CHOOSE f \in fs : f.dir = dir /\ f.name = name

\* sorter.rs 107-113, 181-187: "{stem}_{counter}.{ext}" from the stem and the
\* extension of the source name (without the dot when ext is empty)
NewFilename(name, counter) ==
    [stem |-> Append(name.stem, counter), ext |-> name.ext]

\* sorter.rs 105-116, 179-190: the collision loop
RECURSIVE CollisionLoop(_, _, _, _, _)
CollisionLoop(fs, dir, source_name, dest_name, counter) ==
    IF Exists(fs, dir, dest_name)
    THEN CollisionLoop(fs, dir, source_name,
                       NewFilename(source_name, counter), counter + 1)
    ELSE dest_name

\* sorter.rs 101-102, 175-176: dest_path starts as dest_dir.join(filename)
DestPath(fs, dir, source_name) ==
    CollisionLoop(fs, dir, source_name, source_name, 1)

\* sorter.rs 119, 192: fs::rename succeeded
Renamed(fs, src, dir, name) ==
    (fs \ {src}) \cup {[dir |-> dir, name |-> name, id |-> src.id]}

\* sorter.rs 121: fs::copy succeeded
Copied(fs, src, dir, name) ==
    fs \cup {[dir |-> dir, name |-> name, id |-> src.id]}

\* mutant of TrashFailed: the file is deleted permanently as a fallback
TrashFailedThenRemoved(fs, src) == fs \ {src}

\* sorter.rs 147-151: trash::delete failed; nothing is deleted
TrashFailed(fs, src) == fs

\* ----------------------------------------------------------------- Init
NoResult == <<>>

\* No file operation is under way and the hash cache is empty.
NoOperation ==
    /\ op = "none" /\ target_exists = FALSE /\ fsys = {} /\ trash = {}
    /\ op_paths = <<>> /\ todo = <<>> /\ oppc = "returned"
    /\ opres = NewResult
NoCache == cache = <<>> /\ mtime = <<>>
FirstRun == run = 1 /\ previous = {} /\ decodes = 0

\* folder.rs 99-112: find_duplicates has been entered with n paths
HashingStart(n) ==
    /\ paths = [k \in 1..n |-> k]
    /\ phase = "hashing"
    /\ pc = [w \in Workers |-> "idle"]
    /\ item = [w \in Workers |-> 0]
    /\ taken = {}
    /\ slot = [k \in 1..n |-> None]
    /\ finished = <<>>
    /\ error_count = 0
    /\ mutex = NoOwner
    /\ tmp = [w \in Workers |-> 0]
    /\ hashed_images = <<>>
    /\ groups = <<>>
    /\ image_to_group = <<>>
    /\ next_group_id = 0
    /\ i = 0
    /\ result = NoResult

InitHashing(n) == NoOperation /\ NoCache /\ FirstRun /\ HashingStart(n)

\* find_duplicates has not been called
NoDetection ==
    /\ files = <<>> /\ threshold = 0
    /\ FirstRun /\ HashingStart(0)

Init ==
    \E n \in 0..MaxPaths :
        /\ files \in [1..n -> FileContents(PipeBits)]
        /\ threshold \in 0..PipeMaxThreshold
        /\ InitHashing(n)

\* The state find_duplicates is in when collect() has returned (folder.rs
\* 140-147) after the workers completed the paths in input order.
InitJoined(n) ==
    /\ NoOperation /\ NoCache
    /\ run = 1 /\ previous = {} /\ decodes = n
    /\ paths = [k \in 1..n |-> k]
    /\ phase = "grouping"
    /\ pc = [w \in Workers |-> "idle"]
    /\ item = [w \in Workers |-> 0]
    /\ taken = 1..n
    /\ slot = [k \in 1..n |-> HashOutcome(files, k)]
    /\ finished = [k \in 1..n |-> k]
    /\ error_count = Cardinality({k \in 1..n : ~files[k].ok})
    /\ mutex = NoOwner
    /\ tmp = [w \in Workers |-> 0]
    /\ hashed_images = Collect(slot, finished)
    /\ groups = GroupingStart.groups
    /\ image_to_group = GroupingStart.itg
    /\ next_group_id = GroupingStart.next
    /\ i = GroupingStart.i
    /\ result = NoResult

\* Grouping as a function of the collected list: every list of readable
\* images and every threshold within the bounds, the hashing stage joined.
InitGroup ==
    \E n \in 0..MaxImages :
        /\ files \in [1..n -> FileContents(HashBits) \ {Fail}]
        /\ threshold \in 0..MaxThreshold
        /\ InitJoined(n)

\* -------------------------------------------------------------- hashing
\* folder.rs 105-127: a worker runs the closure on a path that loads and
\* hashes: the closure returns Some(ImageWithHash).
HashOk(w, k) ==
    /\ phase = "hashing" /\ pc[w] = "idle"
    /\ k \in (1..Len(paths)) \ taken
    /\ HashOutcome(files, paths[k]).some
    /\ taken' = taken \cup {k}
    /\ slot' = [slot EXCEPT ![k] = HashOutcome(files, paths[k])]
    /\ finished' = Append(finished, k)
    /\ decodes' = decodes + 1
    /\ UNCHANGED static
    /\ UNCHANGED <<inputs, phase, pc, item, error_count, mutex, tmp,
                   hashed_images, groupState, result>>

\* folder.rs 128, 134: the closure meets Err and goes for the counter.
HashErr(w, k) ==
    /\ phase = "hashing" /\ pc[w] = "idle"
    /\ k \in (1..Len(paths)) \ taken
    /\ ~HashOutcome(files, paths[k]).some
    /\ taken' = taken \cup {k}
    /\ pc' = [pc EXCEPT ![w] = "lock"]
    /\ item' = [item EXCEPT ![w] = k]
    /\ decodes' = decodes + 1
    /\ UNCHANGED static
    /\ UNCHANGED <<inputs, phase, slot, finished, error_count, mutex, tmp,
                   hashed_images, groupState, result>>

\* folder.rs 129, 135: error_count.lock().unwrap() and the read of
\* *guard += 1 (no other thread sees the state between the two).
LockAndRead(w) ==
    /\ pc[w] = "lock"
    /\ MutexFree(mutex)
    /\ mutex' = w
    /\ tmp' = [tmp EXCEPT ![w] = error_count]
    /\ pc' = [pc EXCEPT ![w] = "write"]
    /\ UNCHANGED <<static, decodes>>
    /\ UNCHANGED <<inputs, phase, item, taken, slot, finished, error_count,
                   hashed_images, groupState, result>>

\* folder.rs 129-130, 135-136: the write of *guard += 1, the drop of the
\* guard at the end of the statement, and the closure's None.
WriteCount(w) ==
    /\ pc[w] = "write"
    /\ error_count' = tmp[w] + 1
    /\ mutex' = IF mutex = w THEN NoOwner ELSE mutex
    /\ tmp' = [tmp EXCEPT ![w] = 0]
    /\ pc' = [pc EXCEPT ![w] = "idle"]
    /\ slot' = [slot EXCEPT ![item[w]] = None]
    /\ finished' = Append(finished, item[w])
    /\ item' = [item EXCEPT ![w] = 0]
    /\ UNCHANGED <<static, decodes>>
    /\ UNCHANGED <<inputs, phase, taken, hashed_images, groupState, result>>

\* mutant of JoinReady: collect() returns once every path is handed out
JoinEarly(tk, p, n) == tk = 1..n

\* folder.rs 140: collect() returns when every path has been handed to a
\* worker and every closure has returned.
JoinReady(tk, p, n) == tk = 1..n /\ \A w \in Workers : p[w] = "idle"

\* folder.rs 140-147: collect() returns when every closure has returned;
\* the grouping state is set up.
Join ==
    /\ phase = "hashing"
    /\ JoinReady(taken, pc, Len(paths))
    /\ hashed_images' = Collect(slot, finished)
    /\ groups' = GroupingStart.groups
    /\ image_to_group' = GroupingStart.itg
    /\ next_group_id' = GroupingStart.next
    /\ i' = GroupingStart.i
    /\ phase' = "grouping"
    /\ UNCHANGED <<static, decodes>>
    /\ UNCHANGED <<inputs, hashState, result>>

\* ------------------------------------------------------------- grouping
GroupSt == [groups |-> groups, itg |-> image_to_group,
            next |-> next_group_id, i |-> i]

\* folder.rs 149-178: one iteration of the outer loop
GroupStep ==
    /\ phase = "grouping"
    /\ i <= Len(hashed_images)
    /\ LET st == OuterStep(hashed_images, GroupSt, threshold)
       IN /\ groups' = st.groups
          /\ image_to_group' = st.itg
          /\ next_group_id' = st.next
          /\ i' = st.i
    /\ UNCHANGED <<static, decodes>>
    /\ UNCHANGED <<inputs, phase, hashState, hashed_images, result>>

\* folder.rs 180-197: the groups leave the map in some order, the total is
\* computed and the result returned.
Finish ==
    /\ phase = "grouping"
    /\ i > Len(hashed_images)
    /\ \E o \in GroupOrders(groups) :
          LET duplicate_groups ==
                  [k \in 1..Len(o) |-> [images |-> groups[o[k]]]]
          IN result' = [groups |-> duplicate_groups,
                        total_duplicates |-> TotalDuplicates(duplicate_groups),
                        processed |-> Len(hashed_images),
                        errors |-> error_count]
    /\ phase' = "done"
    /\ UNCHANGED <<static, decodes>>
    /\ UNCHANGED <<inputs, hashState, hashed_images, groupState>>

Next ==
    \/ \E w \in Workers, k \in 1..MaxPaths : HashOk(w, k)
    \/ \E w \in Workers, k \in 1..MaxPaths : HashErr(w, k)
    \/ \E w \in Workers : LockAndRead(w)
    \/ \E w \in Workers : WriteCount(w)
    \/ Join
    \/ GroupStep
    \/ Finish

Spec == Init /\ [][Next]_vars

\* The rayon pool runs every closure it was given and the calling thread
\* goes on after collect(): a step that can be taken is taken.
\* main.rs 15, folder.rs 99: the front end calls find_duplicates again with
\* the same paths and threshold, the files unchanged.
Rerun ==
    /\ phase = "done" /\ run = 1
    /\ run' = run + 1
    /\ previous' = {result.groups[g].images : g \in 1..Len(result.groups)}
    /\ decodes' = 0
    /\ phase' = "hashing"
    /\ pc' = [w \in Workers |-> "idle"]
    /\ item' = [w \in Workers |-> 0]
    /\ taken' = {}
    /\ slot' = [k \in 1..Len(paths) |-> None]
    /\ finished' = <<>>
    /\ error_count' = 0
    /\ mutex' = NoOwner
    /\ tmp' = [w \in Workers |-> 0]
    /\ hashed_images' = <<>>
    /\ groups' = <<>>
    /\ image_to_group' = <<>>
    /\ next_group_id' = 0
    /\ i' = 0
    /\ result' = NoResult
    /\ UNCHANGED <<inputs, cacheVars, opVars>>

NextTwice == Next \/ Rerun

SpecTwice == Init /\ [][NextTwice]_vars

\* ----------------------------------------------------------- Hash Cache
CachePathSet == 1..CachePaths
CacheHashes == {ToBase64(<<0>>), ToBase64(<<1>>)}

\* open(cacheDirectory) with no persisted table: the cache starts empty.
InitCache ==
    /\ NoOperation /\ NoDetection
    /\ cache = <<>>
    /\ mtime \in [CachePathSet -> 0..MaxMtime]

\* Pipeline step 3: the hash computed for path is written into the cache
\* under the modification time read from the file.
CacheInsert(path, hash) ==
    /\ cache' = Insert(cache, path, mtime[path], hash)
    /\ UNCHANGED <<mtime, inputs, phase, hashState, hashed_images, groupState,
                   result, history, decodes, opVars>>

\* The file at path is modified: its modification time changes.
Touch(path, m) ==
    /\ m # mtime[path]
    /\ mtime' = [mtime EXCEPT ![path] = m]
    /\ UNCHANGED <<cache, inputs, phase, hashState, hashed_images, groupState,
                   result, history, decodes, opVars>>

NextCache ==
    \/ \E path \in CachePathSet, hash \in CacheHashes : CacheInsert(path, hash)
    \/ \E path \in CachePathSet, m \in 0..MaxMtime : Touch(path, m)

SpecCache == InitCache /\ [][NextCache]_vars

\* ------------------------------------------------------ file operations
detection == <<inputs, phase, hashState, hashed_images, groupState, result,
               history, decodes>>

SourceDir == "source"
TargetDir == "target"

\* sorter.rs 90-94: the date folder below the target (one date)
DateDir == "target/2024/01"

Names == {[stem |-> <<"a">>, ext |-> "jpg"], [stem |-> <<"a", 1>>, ext |-> "jpg"]}

Operations == {"move", "sort_move", "sort_copy", "delete"}

Sorting == {"sort_move", "sort_copy"}

\* sorter.rs 90, 176: the directory the files are placed in
DestDir(o) == IF o \in Sorting THEN DateDir ELSE TargetDir

Places(o, te) ==
    {[dir |-> d, name |-> n] :
        d \in IF te THEN {SourceDir, DestDir(o)} ELSE {SourceDir}, n \in Names}

PathLists(o) ==
    UNION {[1..n -> Places(o, TRUE)] : n \in 0..MaxOpPaths}

\* sorter.rs 50-52, 134-135, 158-160: the operation has been called
InitOps ==
    /\ NoDetection /\ NoCache
    /\ op \in Operations
    /\ target_exists \in BOOLEAN
    /\ \E S \in SUBSET Places(op, target_exists) :
           fsys = {[dir |-> l.dir, name |-> l.name, id |-> l] : l \in S}
    /\ trash = {}
    /\ op_paths \in PathLists(op)
    /\ todo = op_paths
    /\ opres = [NewResult EXCEPT !.processed = Len(op_paths)]
    /\ oppc = "entered"

\* sorter.rs 54-57, 163-166
TargetMissing ==
    /\ oppc = "entered" /\ op # "delete" /\ ~target_exists
    /\ opres' = AddError(opres, "target")
    /\ oppc' = "returned"
    /\ UNCHANGED <<op, target_exists, fsys, trash, op_paths, todo>>
    /\ UNCHANGED <<detection, cacheVars>>

\* sorter.rs 64, 137, 168: the loop over the paths is entered
EnterLoop ==
    /\ oppc = "entered" /\ (op = "delete" \/ target_exists)
    /\ oppc' = "loop"
    /\ UNCHANGED <<op, target_exists, fsys, trash, op_paths, todo, opres>>
    /\ UNCHANGED <<detection, cacheVars>>

Source == Head(todo)

InLoop == oppc = "loop" /\ todo # <<>>

SourceExists == Exists(fsys, Source.dir, Source.name)

\* sorter.rs 67-70, 139-142, 170-173
SourceMissing ==
    /\ InLoop /\ ~SourceExists
    /\ opres' = AddError(opres, "missing")
    /\ todo' = Tail(todo)
    /\ UNCHANGED <<op, target_exists, fsys, trash, op_paths, oppc>>
    /\ UNCHANGED <<detection, cacheVars>>

\* sorter.rs 72-78: read_creation_date gave None
DateUnreadable ==
    /\ InLoop /\ SourceExists /\ op \in Sorting
    /\ opres' = AddError(opres, "date")
    /\ todo' = Tail(todo)
    /\ UNCHANGED <<op, target_exists, fsys, trash, op_paths, oppc>>
    /\ UNCHANGED <<detection, cacheVars>>

\* sorter.rs 96-99: create_dir_all failed
CreateDirFailed ==
    /\ InLoop /\ SourceExists /\ op \in Sorting
    /\ opres' = AddError(opres, "mkdir")
    /\ todo' = Tail(todo)
    /\ UNCHANGED <<op, target_exists, fsys, trash, op_paths, oppc>>
    /\ UNCHANGED <<detection, cacheVars>>

\* sorter.rs 101-127, 175-195: the file is placed, or the rename or copy fails
Place(ok) ==
    /\ InLoop /\ SourceExists /\ op # "delete"
    /\ LET src == FileAt(fsys, Source.dir, Source.name)
           dest_name == DestPath(fsys, DestDir(op), src.name)
       IN IF ok
          THEN /\ fsys' = IF op = "sort_copy"
                          THEN Copied(fsys, src, DestDir(op), dest_name)
                          ELSE Renamed(fsys, src, DestDir(op), dest_name)
               /\ opres' = AddSuccess(opres)
          ELSE /\ fsys' = fsys
               /\ opres' = AddError(opres, "op")
    /\ todo' = Tail(todo)
    /\ UNCHANGED <<op, target_exists, trash, op_paths, oppc>>
    /\ UNCHANGED <<detection, cacheVars>>

\* sorter.rs 145-152: trash::delete
Trash(ok) ==
    /\ InLoop /\ SourceExists /\ op = "delete"
    /\ LET src == FileAt(fsys, Source.dir, Source.name)
       IN IF ok
          THEN /\ fsys' = fsys \ {src}
               /\ trash' = trash \cup {src}
               /\ opres' = AddSuccess(opres)
          ELSE /\ fsys' = TrashFailed(fsys, src)
               /\ trash' = trash
               /\ opres' = AddError(opres, "trash")
    /\ todo' = Tail(todo)
    /\ UNCHANGED <<op, target_exists, op_paths, oppc>>
    /\ UNCHANGED <<detection, cacheVars>>

\* sorter.rs 130, 154, 197
Return ==
    /\ oppc = "loop" /\ todo = <<>>
    /\ oppc' = "returned"
    /\ UNCHANGED <<op, target_exists, fsys, trash, op_paths, todo, opres>>
    /\ UNCHANGED <<detection, cacheVars>>

NextOps ==
    \/ TargetMissing
    \/ EnterLoop
    \/ SourceMissing
    \/ DateUnreadable
    \/ CreateDirFailed
    \/ \E ok \in BOOLEAN : Place(ok)
    \/ \E ok \in BOOLEAN : Trash(ok)
    \/ Return

SpecOps == InitOps /\ [][NextOps]_vars

\* The runs are those of every list of failing and readable files; what the
\* hashes are plays no part in when the stages run.
FairContents == {Fail, Hashes(<<0>>), Hashes(<<1>>)}
FairThresholds == {0, 1}
InitFair ==
    \E n \in 0..MaxPaths :
        /\ files \in [1..n -> FairContents]
        /\ threshold \in FairThresholds
        /\ InitHashing(n)

SpecFair == InitFair /\ [][Next]_vars /\ WF_vars(Next)

NextGroup == GroupStep \/ Finish

SpecGroup == InitGroup /\ [][NextGroup]_vars

\* Hashes of images that differ from a base image in whole regions of the
\* picture: region r flips the hash bits MonoRegions[r].
MonoImages == 4
MonoBits == 7
MonoMaxThreshold == 3
MonoRegions == <<{1, 2}, {3, 4}, {5, 6, 7}>>
MonoHashes ==
    {[k \in 1..MonoBits |->
         IF \E r \in S : k \in MonoRegions[r] THEN 1 ELSE 0] :
     S \in SUBSET (1..Len(MonoRegions))}

InitMono ==
    \E n \in 0..MonoImages :
        /\ files \in [1..n -> {Hashes(b) : b \in MonoHashes}]
        /\ threshold \in 0..MonoMaxThreshold
        /\ InitJoined(n)

SpecMono == InitMono /\ [][NextGroup]_vars

\* ------------------------------------------------- vocabulary of the claims
Done == phase = "done"

\* index in hashed_images of the record with the given ImageInfo
IndexOf(info) ==
    CHOOSE k \in 1..Len(hashed_images) : hashed_images[k].info = info

\* the hash bits of the k-th hashed record, as the file system has them
HashOf(k) == files[hashed_images[k].info.path].bits

Near(a, b) == Dist(HashOf(a), HashOf(b)) <= threshold

\* indices of the members of a Vec<ImageInfo>
MemberSet(members) == {IndexOf(members[m]) : m \in 1..Len(members)}

SeedOf(members) == IndexOf(members[1])

ResultGroups == {result.groups[g].images : g \in 1..Len(result.groups)}

\* the readable paths of the call, in input order, and their records
ReadablePaths == SelectSeq(paths, LAMBDA p : files[p].ok)
RecordsOf(ps) ==
    [k \in 1..Len(ps) |->
        [info |-> [path |-> ps[k]], hash |-> ToBase64(files[ps[k]].bits)]]
FailingCount == Cardinality({k \in 1..Len(paths) : ~files[paths[k]].ok})

GroupsAt(imgs, t) ==
    LET g == RunGroups(imgs, t).groups IN {g[id] : id \in DOMAIN g}

RECURSIVE SumOver(_, _)
SumOver(S, f) ==
    IF S = {} THEN 0
    ELSE LET x == CHOOSE y \in S : TRUE IN f[x] + SumOver(S \ {x}, f)

\* totalDuplicates of a run of the grouping on imgs at threshold t
TotalAt(imgs, t) ==
    LET g == RunGroups(imgs, t).groups
    IN SumOver(DOMAIN g, [id \in DOMAIN g |-> Len(g[id]) - 1])

\* connected component of record k in the graph that joins records whose
\* hashes are within the threshold
RECURSIVE Closure(_)
Closure(S) ==
    LET T == S \cup {j \in 1..Len(hashed_images) : \E m \in S : Near(m, j)}
    IN IF T = S THEN S ELSE Closure(T)
Component(k) == Closure({k})
Components == {Component(k) : k \in 1..Len(hashed_images)}
Neighbours(k) == {j \in 1..Len(hashed_images) : Near(k, j)}
Min(S) == CHOOSE x \in S : \A y \in S : x <= y

\* ------------------------------------------------------------------ claims
\* C1: after find_duplicates returns, no record is a member of more than one
\* DuplicateGroup: the member sets of the returned groups are pairwise
\* disjoint.
C1_GroupsDisjoint ==
    Done => \A a, b \in 1..Len(result.groups) :
                a # b => \A x \in 1..Len(result.groups[a].images),
                            y \in 1..Len(result.groups[b].images) :
                            result.groups[a].images[x] # result.groups[b].images[y]

C1_Witness == Done /\ Len(result.groups) >= 2

\* C2: every emitted group has at least 2 members, in the map and in the
\* result, and a seed that collected no other record has no group.
C2_GroupsAtLeastTwo ==
    /\ \A gid \in DOMAIN groups : Len(groups[gid]) >= 2
    /\ \A k \in DOMAIN image_to_group :
          (\A k2 \in DOMAIN image_to_group :
               image_to_group[k2] = image_to_group[k] => k2 = k)
          => image_to_group[k] \notin DOMAIN groups
    /\ Done => \A g \in 1..Len(result.groups) :
                  Len(result.groups[g].images) >= 2

C2_Witness ==
    /\ Done /\ Len(result.groups) >= 1
    /\ \E k \in DOMAIN image_to_group :
          image_to_group[k] \notin DOMAIN groups

\* C3: with N input paths of which K fail, the result has errors = K and
\* processed = N - K, whatever the interleaving of the workers.
C3_ErrorAccounting ==
    Done => /\ result.errors = FailingCount
            /\ result.processed = Len(paths) - FailingCount

C3_Witness == Done /\ result.errors >= 2 /\ result.processed >= 1

\* C4: for the same list of hashed records, totalDuplicates at a threshold
\* is at least totalDuplicates at every smaller threshold.
C4_ThresholdMonotone ==
    Done => \A t1 \in 0..threshold :
                TotalAt(hashed_images, t1) <= result.total_duplicates

\* C5: totalDuplicates is the number of grouped records minus the number of
\* groups.
C5_TotalDuplicates ==
    Done => result.total_duplicates =
                Cardinality(UNION {MemberSet(m) : m \in ResultGroups})
                - Len(result.groups)

C5_Witness ==
    /\ Done /\ Len(result.groups) >= 2
    /\ result.total_duplicates = 2 /\ result.processed = 4

\* C6: the threshold is inclusive: a record after a seed, within the
\* threshold of it and taken by no earlier group is in the seed's group; at
\* threshold 0 the groups are the classes of equal hash with >= 2 members.
EqualHashClasses ==
    {c \in {{j \in 1..Len(hashed_images) : HashOf(j) = HashOf(k)} :
               k \in 1..Len(hashed_images)} : Cardinality(c) >= 2}

C6_InclusiveThreshold ==
    Done =>
      /\ \A m \in ResultGroups : \A j \in 1..Len(hashed_images) :
            (/\ j > SeedOf(m)
             /\ Dist(HashOf(SeedOf(m)), HashOf(j)) <= threshold
             /\ \A m2 \in ResultGroups :
                   SeedOf(m2) < SeedOf(m) => j \notin MemberSet(m2))
            => j \in MemberSet(m)
      /\ threshold = 0 => {MemberSet(m) : m \in ResultGroups} = EqualHashClasses

C6_Witness ==
    /\ Done /\ threshold = 0 /\ result.total_duplicates = 2
    /\ \E m \in ResultGroups : Len(m) = 3

\* C7: every group has a common seed: its first member is its lowest-index
\* record, every other member's hash is within the threshold of the seed's
\* hash, and the seed was unvisited when the group was started.
SeedInvariant ==
    \A gid \in DOMAIN groups :
        \A m \in 2..Len(groups[gid]) :
            /\ IndexOf(groups[gid][m]) > SeedOf(groups[gid])
            /\ Near(SeedOf(groups[gid]), IndexOf(groups[gid][m]))

SeedUnvisitedAtStart ==
    \A gid \in DOMAIN groups' :
        gid \notin DOMAIN groups =>
            /\ SeedOf(groups'[gid]) = i
            /\ i \notin DOMAIN image_to_group

C7_CommonSeed == [][SeedUnvisitedAtStart]_vars /\ []SeedInvariant

C7_Witness ==
    Done /\ \E m \in ResultGroups : SeedOf(m) > 1 /\ Len(m) >= 3

\* C8 as stated: a record within the threshold of any member of a group is in
\* that group, and the groups are the connected components of size >= 2.
C8_ConnectedComponents ==
    Done =>
      /\ \A m \in ResultGroups : \A j \in 1..Len(hashed_images) :
            (\E k \in MemberSet(m) : Near(k, j)) => j \in MemberSet(m)
      /\ {MemberSet(m) : m \in ResultGroups}
            = {c \in Components : Cardinality(c) >= 2}

\* C8 amended: membership is by a direct edge from the seed only: every group
\* lies inside one connected component, and every component of size >= 2
\* holds the group made of its lowest-index record and that record's direct
\* neighbours.
C8_SeedNeighbourhood ==
    Done =>
      /\ \A m \in ResultGroups : MemberSet(m) \subseteq Component(SeedOf(m))
      /\ \A c \in Components :
            Cardinality(c) >= 2 =>
                \E m \in ResultGroups :
                    /\ SeedOf(m) = Min(c)
                    /\ MemberSet(m) = Neighbours(Min(c))

C8_Witness ==
    Done /\ \E m \in ResultGroups :
                MemberSet(m) # Component(SeedOf(m))

\* C9: whatever order the workers complete in, the collected list is the
\* readable records in input order, and the groups (members in order) are
\* those of that list.
C9_OrderIndependent ==
    /\ phase # "hashing" => hashed_images = RecordsOf(ReadablePaths)
    /\ Done => ResultGroups = GroupsAt(RecordsOf(ReadablePaths), threshold)

C9_Witness ==
    /\ Done /\ Len(result.groups) >= 1
    /\ \E a, b \in 1..Len(finished) :
          a < b /\ finished[a] > finished[b]
          /\ files[paths[finished[a]]].ok /\ files[paths[finished[b]]].ok

\* C10: a run that meets failing paths goes on to its result, and the result
\* is the one of the run on the readable paths alone, but for the errors
\* count.
ResultOn(ps, t) ==
    [groups |-> GroupsAt(RecordsOf(ps), t),
     total_duplicates |-> TotalAt(RecordsOf(ps), t),
     processed |-> Len(ps),
     errors |-> 0]

\* Some step of find_duplicates can be taken (the guards of the actions):
\* a worker holds the mutex and writes, a waiting worker finds it free, an
\* idle worker takes a path, collect() returns, or the grouping goes on.
CanProceed ==
    \/ \E w \in Workers : pc[w] = "write"
    \/ \E w \in Workers : pc[w] = "lock" /\ MutexFree(mutex)
    \/ /\ phase = "hashing"
       /\ \E w \in Workers : pc[w] = "idle"
       /\ taken # 1..Len(paths)
    \/ /\ phase = "hashing"
       /\ \A w \in Workers : pc[w] = "idle"
       /\ taken = 1..Len(paths)
    \/ phase = "grouping"

C10_FailuresOnlyCounted ==
    /\ ~Done => CanProceed
    /\ Done =>
          /\ [result EXCEPT !.groups = ResultGroups, !.errors = 0]
                = ResultOn(ReadablePaths, threshold)
          /\ result.errors = Len(paths) - Len(ReadablePaths)

C10_Witness ==
    Done /\ result.errors >= 1 /\ Len(result.groups) >= 1

\* C11: grouping starts only after every input path has completed its
\* hashing step, no group is built from a partial hash set, and the run
\* returns in the end.
AllResolved ==
    /\ {finished[k] : k \in 1..Len(finished)} = 1..Len(paths)
    /\ \A w \in Workers : pc[w] = "idle"
    /\ error_count = FailingCount

C11_Barrier ==
    /\ [](phase # "hashing" =>
            AllResolved /\ Len(hashed_images) = Len(ReadablePaths))
    /\ [](phase = "hashing" => groups = <<>> /\ hashed_images = <<>>)
    /\ <>Done

C11_Witness ==
    /\ phase = "grouping" /\ i > 1
    /\ FailingCount >= 1 /\ Len(hashed_images) >= 2

\* C12: a second run on an unchanged file set yields the groups of the first
\* and recomputes nothing: no image is decoded or hashed again.
C12_Idempotent ==
    (Done /\ run = 2) => (ResultGroups = previous /\ decodes = 0)

\* what the pipeline's cache-aside lookup of path returns now
CurrentLookup(c, mt, path) == Lookup(c, path, mt[path])

LookupExact ==
    \A path \in CachePathSet, m \in 0..MaxMtime :
        IF path \in DOMAIN cache /\ cache[path].modifiedTime = m
        THEN Lookup(cache, path, m) = Some(cache[path].hash)
        ELSE Lookup(cache, path, m) = None

TouchInvalidatesOne ==
    \A path \in CachePathSet :
        (mtime'[path] # mtime[path] /\ cache' = cache
            /\ CurrentLookup(cache, mtime, path).some)
        => /\ CurrentLookup(cache', mtime', path) = None
           /\ \A q \in CachePathSet \ {path} :
                CurrentLookup(cache', mtime', q) = CurrentLookup(cache, mtime, q)

\* C13: lookup(path, modifiedTime) is a hit exactly when the modification
\* time stored for path equals modifiedTime, and then returns the stored
\* hash; a change of one path's modification time turns that path's hit into
\* a miss and leaves the lookup of every other path as it was.
C13_CacheCorrectness == []LookupExact /\ [][TouchInvalidatesOne]_vars

\* one path's entry has been invalidated by a change of its modification
\* time while another path's entry still hits
C13_Witness ==
    \E path, q \in CachePathSet :
        /\ path \in DOMAIN cache /\ cache[path].modifiedTime # mtime[path]
        /\ CurrentLookup(cache, mtime, path) = None
        /\ q # path /\ CurrentLookup(cache, mtime, q).some

\* a step of move_images or sort_images that counted a success
Placed == oppc = "loop" /\ op # "delete" /\ opres'.success = opres.success + 1

\* the first N >= 1 for which stem_N.ext is free in dir
FirstFreeSuffix(fs, dir, name) ==
    CHOOSE n \in 1..(Cardinality(fs) + 1) :
        /\ ~Exists(fs, dir, NewFilename(name, n))
        /\ \A k \in 1..(n - 1) : Exists(fs, dir, NewFilename(name, k))

PlacedSafely ==
    Placed =>
        LET src == FileAt(fsys, Source.dir, Source.name)
            dir == DestDir(op)
            expected == IF Exists(fsys, dir, src.name)
                        THEN NewFilename(src.name, FirstFreeSuffix(fsys, dir, src.name))
                        ELSE src.name
        IN /\ \A f \in fsys : f.dir = dir => f \in fsys'
           /\ fsys' \ fsys = {[dir |-> dir, name |-> expected, id |-> src.id]}
           /\ op # "sort_copy" => src \notin fsys'

\* C14: a successful placement by move_images or sort_images overwrites no
\* file of the destination directory and leaves every file that was there in
\* place; the file goes under its own name, or when that is taken under the
\* first free stem_N.ext; a move removes the source.
C14_CollisionSafe == [][PlacedSafely]_vars

\* a step of delete_images on a path that exists
Deleting == op = "delete" /\ InLoop /\ SourceExists /\ todo' = Tail(todo)

TrashedOrKept ==
    Deleting =>
        LET src == FileAt(fsys, Source.dir, Source.name)
        IN \/ /\ fsys' = fsys \ {src} /\ trash' = trash \cup {src}
              /\ opres'.success = opres.success + 1
              /\ opres'.errors = opres.errors
           \/ /\ fsys' = fsys /\ trash' = trash
              /\ opres'.success = opres.success
              /\ opres'.errors = opres.errors + 1

NothingVanishes == op = "delete" => fsys' \cup trash' = fsys \cup trash

\* C15: delete_images deletes nothing permanently: a step on an existing
\* path either moves the file to the trash and counts a success, or leaves
\* it where it is and counts an error; every file is afterwards in the file
\* system or in the trash.
C15_TrashOnly == [][TrashedOrKept /\ NothingVanishes]_vars

\* a call has returned after trashing one file and failing to trash another,
\* which is still in place
C15_Witness ==
    /\ op = "delete" /\ oppc = "returned"
    /\ trash # {} /\ opres.success >= 1
    /\ \E k \in 1..Len(opres.error_messages) : opres.error_messages[k] = "trash"
    /\ \E k \in 1..Len(op_paths) : Exists(fsys, op_paths[k].dir, op_paths[k].name)

Returned == oppc = "returned"

\* C18 as stated: every returned OperationResult has processed equal to the
\* number of input paths, success + errors equal to processed, and errors
\* equal to the number of error messages.
C18_ResultAccounting ==
    Returned =>
        /\ opres.processed = Len(op_paths)
        /\ opres.success + opres.errors = opres.processed
        /\ opres.errors = Len(opres.error_messages)

\* C18 amended: processed is the number of input paths and errors the number
\* of error messages for every call; success + errors equals processed for
\* delete_images and for the calls whose target directory exists, while a
\* call with a missing target returns success 0 and errors 1.
C18_ResultAccountingTargetExists ==
    Returned =>
        /\ opres.processed = Len(op_paths)
        /\ opres.errors = Len(opres.error_messages)
        /\ IF op # "delete" /\ ~target_exists
           THEN opres.success = 0 /\ opres.errors = 1
           ELSE opres.success + opres.errors = opres.processed

\* a move or sort of two paths has returned for a missing target directory
C18_Witness ==
    /\ Returned /\ op # "delete" /\ ~target_exists
    /\ Len(op_paths) = 2 /\ opres.errors = 1

\* Near-Duplicate Index, steps 3-4: the index is queried for the distinct
\* hash values within the threshold of the seed's hash, and the side table
\* gives the record indices sharing each of them.
IndexQuery(k) ==
    LET values == {HashOf(j) : j \in 1..Len(hashed_images)}
        matching == {h \in values : Dist(h, HashOf(k)) <= threshold}
    IN {j \in 1..Len(hashed_images) : HashOf(j) \in matching}

\* Grouping algorithm, steps 1-5, from record k on with the given visited-set
RECURSIVE IndexGrouping(_, _, _)
IndexGrouping(k, visited, emitted) ==
    IF k > Len(hashed_images) THEN emitted
    ELSE IF k \in visited THEN IndexGrouping(k + 1, visited, emitted)
    ELSE LET found == IndexQuery(k) \ visited
         IN IndexGrouping(k + 1, visited \cup found,
                IF Cardinality(found) > 1
                THEN emitted \cup {[seed |-> k, members |-> found]}
                ELSE emitted)

\* C16: the groups find_duplicates returns have the seeds and the member sets
\* of the groups the index-based algorithm emits on the same records and
\* threshold.
C16_SameAsIndexGrouping ==
    Done =>
        {[seed |-> SeedOf(m), members |-> MemberSet(m)] : m \in ResultGroups}
            = IndexGrouping(1, {}, {})

\* two groups were returned, and the second seed's query also matched a
\* record the first group had already taken
C16_Witness ==
    /\ Done /\ Len(result.groups) >= 2
    /\ \E m \in ResultGroups :
          IndexQuery(SeedOf(m)) \ MemberSet(m) # {}

Grouped == UNION {MemberSet(m) : m \in ResultGroups}

\* C17: after find_duplicates returns, two distinct records that are both in
\* no group have hashes further apart than the threshold.
C17_NoPairMissed ==
    Done =>
        \A a, b \in 1..Len(hashed_images) \ Grouped :
            a # b => Dist(HashOf(a), HashOf(b)) > threshold

\* a group was returned and two records were left ungrouped
C17_Witness ==
    /\ Done /\ ResultGroups # {}
    /\ Cardinality(1..Len(hashed_images) \ Grouped) >= 2

====
